---- MODULE Spec2Model ----
(***************************************************************************)
(* Model of the camera / input / light-parameter core of the viewer:       *)
(* ViewManager.cpp (keyboard, mouse and scroll handling, projection mode,  *)
(* interactive light shortcuts).                                           *)
(*                                                                         *)
(* C++ float values are modelled as IEEE-754 binary32 numbers: a pair      *)
(* <<m, e>> stands for m * 2^e, with m = 0 (and e = 0) for zero and        *)
(* 2^23 <= |m| < 2^24 otherwise.  Addition and multiplication round to     *)
(* nearest, ties to even, as the hardware does.  Exponent overflow and     *)
(* subnormals are out of the range the program's clamps allow.             *)
(***************************************************************************)
EXTENDS Integers, Sequences, FiniteSets, TLC

VARIABLES
    pc,                      \* where the frame loop stands: "loop" or "drain" (inside the P busy-wait)
    keys,                    \* the key states glfwGetKey reports (set of keys down), refreshed by glfwPollEvents
    bOrthographicProjection, \* ViewManager.cpp:43
    windowShouldClose,       \* glfwSetWindowShouldClose flag
    projection,              \* which branch built the last projection matrix: "none", "perspective", "orthographic"
    Zoom,                    \* g_pCamera->Zoom
    gFirstMouse, gLastX, gLastY, \* ViewManager.cpp:33-35; gLastX and gLastY are floats
    look,                    \* the last (xOffset, yOffset) handed to g_pCamera->ProcessMouseMovement, floats
    mouseLog,                \* observer of the mouse events: [n, x, y, px, py, fx, sum]
    camCalls,                \* the g_pCamera->ProcessKeyboard calls of the last ProcessKeyboardEvents
    now,                     \* glfwGetTime(), in ticks of 0.016 s
    gLastFrame, gDeltaTime,  \* ViewManager.cpp:38-39, floats
    cameraExists,            \* g_pCamera # NULL
    camPos,                  \* g_pCamera->Position as the distance moved along front, right and up
    Front, Up,               \* g_pCamera->Front and g_pCamera->Up, vectors <<x, y, z>> of floats
    shaderPresent,           \* m_pShaderManager # NULL
    written,                 \* names of the uniforms written to the shader so far
    nullDeref,               \* a null pointer has been dereferenced
    uploaded,                \* the values PrepareSceneView uploaded last
    m_objectMaterials,       \* tags of the defined materials
    m_textureIDs,            \* the registered textures, by slot: [ID, tag]; its length is m_loadedTextures
    glTextures,              \* the texture names OpenGL has generated and not deleted
    glUnits,                 \* the texture name bound to each texture unit, by unit
    texLog,                  \* observer of the last texture-table operation: [op, before, live, ok]
    m_keyOnce,               \* latch per key
    m_moveSpeedScale,
    m_selectedPointLight,
    m_pointLightPos, m_pointLightOn, m_pointIntensity,
    m_dirLightOn, m_flashlightOn, m_ambientBoost,
    mCamCalls,               \* the m_camera.Move* calls of the last HandleInteractiveShortcuts
    mCamPos,                 \* m_camera's position as the distance moved along front, right and up
    title,                   \* the window title last set: <<selected light + 1, speed scale>> or <<>>
    fired,                   \* keys whose KeyPressedOnce returned true in the last HandleInteractiveShortcuts
    sampled,                 \* keys KeyPressedOnce was called for in the last HandleInteractiveShortcuts
    handled,                 \* the held (level-triggered) keys that were down in the last HandleInteractiveShortcuts
    prev,                    \* the light parameters as the last HandleInteractiveShortcuts found them
    watch,                   \* the key whose samples the observers below follow
    observe,                 \* which observer is switched on: "edge", "speed", "intensity", "lights", "ambient", ... or "none"
    run,                     \* consecutive pressed samples of watch since its last released sample (capped)
    runFires,                \* how often watch fired in that run (capped)
    physical,                \* observer of physical presses of watch: [down, any, n]
    pSample, pParity,        \* observer of P: its last sample, and the parity of its physical presses
    speedLog,                \* the last two speed-scale events: <<key, before, after>>
    intRun,                  \* run of pure intensity increments / decrements of one light
    frame,                   \* observer of the last PrepareSceneView: keys sampled, camera position at its start, ...
    zoomLog,                 \* the last scroll event: [delta, before, after, camera]
    hold,                    \* observer of a key held alone over consecutive frames: [key, n, steps]
    toggled,                 \* observer of presses of one toggle key: [key, count, orig]
    evented                  \* a selection or speed event has fired

vars == <<pc, keys, bOrthographicProjection, windowShouldClose, projection, Zoom,
          gFirstMouse, gLastX, gLastY, look, mouseLog, camCalls, now, gLastFrame, gDeltaTime,
          m_keyOnce, m_moveSpeedScale,
          m_selectedPointLight, m_pointLightPos, m_pointLightOn, m_pointIntensity,
          m_dirLightOn, m_flashlightOn, m_ambientBoost, mCamCalls, mCamPos, title,
          fired, sampled, handled, prev, watch, observe, run, runFires, physical,
          pSample, pParity,
          speedLog, intRun,
          cameraExists, camPos, Front, Up, shaderPresent, written, nullDeref, uploaded,
          m_objectMaterials, m_textureIDs, glTextures, glUnits, texLog, frame, zoomLog, hold, toggled, evented>>

(***************************************************************************)
(* binary32 arithmetic                                                     *)
(***************************************************************************)
Pow2(n) == 2 ^ n

Abs(n) == IF n < 0 THEN -n ELSE n

Sgn(n) == IF n < 0 THEN -1 ELSE 1

\* Round the magnitude S * 2^e (0 <= S < 2^28) to 24 significant bits,
\* nearest, ties to even.
RoundMag(S, e) ==
    IF S = 0 THEN <<0, 0>>
    ELSE IF S < Pow2(23)
    THEN LET j == CHOOSE j \in 1..23 : S * Pow2(j) >= Pow2(23) /\ S * Pow2(j) < Pow2(24)
         IN  <<S * Pow2(j), e - j>>
    ELSE LET k  == CHOOSE k \in 0..4 : S < Pow2(24 + k) /\ S >= Pow2(23 + k)
             q  == S \div Pow2(k)
             r  == S % Pow2(k)
             up == k > 0 /\ (2 * r > Pow2(k) \/ (2 * r = Pow2(k) /\ q % 2 = 1))
             q1 == IF up THEN q + 1 ELSE q
         IN  IF q1 = Pow2(24) THEN <<Pow2(23), e + k + 1>> ELSE <<q1, e + k>>

FSigned(s, f) == <<s * f[1], f[2]>>

FNeg(a) == <<-a[1], a[2]>>

\* a + b in binary32
FAdd(a, b) ==
    IF a[1] = 0 THEN b
    ELSE IF b[1] = 0 THEN a
    ELSE LET big   == IF a[2] >= b[2] THEN a ELSE b
             small == IF a[2] >= b[2] THEN b ELSE a
             d     == big[2] - small[2]
         IN  IF d <= 3
             THEN LET S == big[1] * Pow2(d) + small[1]
                  IN  FSigned(Sgn(S), RoundMag(Abs(S), small[2]))
             ELSE IF d > 26 THEN big
             ELSE LET sh   == d - 3
                      q    == Abs(small[1]) \div Pow2(sh)
                      st   == Abs(small[1]) % Pow2(sh) # 0
                      same == Sgn(big[1]) = Sgn(small[1])
                      T    == IF same THEN Abs(big[1]) * 8 + q
                              ELSE Abs(big[1]) * 8 - q - (IF st THEN 1 ELSE 0)
                      S    == IF st /\ T % 2 = 0 THEN T + 1 ELSE T
                  IN  FSigned(Sgn(big[1]), RoundMag(S, big[2] - 3))

FSub(a, b) == FAdd(a, FNeg(b))

\* a * b in binary32 (the 48-bit product is formed from 12-bit halves)
FMul(a, b) ==
    IF a[1] = 0 \/ b[1] = 0 THEN <<0, 0>>
    ELSE LET A    == Abs(a[1])
             B    == Abs(b[1])
             a1   == A \div 4096
             a0   == A % 4096
             b1   == B \div 4096
             b0   == B % 4096
             mid  == a1 * b0 + a0 * b1
             L    == (mid % 4096) * 4096 + a0 * b0
             H    == a1 * b1 + (mid \div 4096) + (L \div Pow2(24))
             Lrem == L % Pow2(24)
             T    == H * 8 + (Lrem \div Pow2(21))
             S    == IF Lrem % Pow2(21) # 0 /\ T % 2 = 0 THEN T + 1 ELSE T
         IN  FSigned(Sgn(a[1]) * Sgn(b[1]), RoundMag(S, a[2] + b[2] + 21))

\* a < b
FLt(a, b) == FSub(a, b)[1] < 0

FLe(a, b) == ~FLt(b, a)

\* std::min(a, b) and std::max(a, b)
FMin(a, b) == IF FLt(b, a) THEN b ELSE a

FMax(a, b) == IF FLt(a, b) THEN b ELSE a

\* (float)n for an integer |n| < 2^24
FInt(n) == FSigned(Sgn(n), RoundMag(Abs(n), 0))


(***************************************************************************)
(* Constants of the program                                                *)
(***************************************************************************)
F0    == <<0, 0>>
F1    == <<8388608, -23>>      \* 1.0f
F2    == <<8388608, -22>>      \* 2.0f
F05   == <<8388608, -24>>      \* 0.5f
F025  == <<8388608, -25>>      \* 0.25f
F8    == <<8388608, -20>>      \* 8.0f
F3    == <<12582912, -22>>     \* 3.0f
F005  == <<13421773, -28>>     \* 0.05f
F0001 == <<8589935, -33>>      \* 0.001f
F03   == <<10066330, -25>>     \* 0.3f
F0016 == <<8589935, -29>>      \* 0.016f
F90   == <<11796480, -17>>     \* 90.0f
F80   == <<10485760, -17>>     \* 80
F20   == <<10485760, -19>>     \* 20
F01   == <<13421773, -27>>     \* 0.1f

MouseBits == 16     \* mouse coordinates are multiples of 2^-MouseBits

WINDOW_WIDTH == 1000
WINDOW_HEIGHT == 800

NumPointLights == 4
Lights == 0..(NumPointLights - 1)

\* keys read through KeyPressedOnce
EdgeKeys == {"Z", "X", "1", "2", "3", "4", "L", "F", "T", "EQUAL", "MINUS"}

\* keys read through glfwGetKey by HandleInteractiveShortcuts
HeldKeys == {"LEFT_SHIFT", "W", "S", "A", "D", "Q", "E", "LEFT", "RIGHT", "UP", "DOWN",
             "PAGE_UP", "PAGE_DOWN", "KP_ADD", "KP_SUBTRACT", "SEMICOLON", "APOSTROPHE"}

\* keys read by ProcessKeyboardEvents
ViewKeys == {"ESCAPE", "W", "S", "A", "D", "Q", "E", "P"}

AllKeys == EdgeKeys \cup HeldKeys \cup ViewKeys

\* the held keys that edit a light parameter
LevelLightKeys == {"LEFT", "RIGHT", "UP", "DOWN", "PAGE_UP", "PAGE_DOWN",
                   "KP_ADD", "KP_SUBTRACT", "SEMICOLON", "APOSTROPHE"}

DigitKeys == {"1", "2", "3", "4"}

ToggleKeys == {"L", "F", "T"}

\* the four keys of the two intensity statements
IntensityKeys == {"KP_ADD", "EQUAL", "KP_SUBTRACT", "MINUS"}

(***************************************************************************)
(* Bounds of the model                                                     *)
(***************************************************************************)
RunCap == 11        \* the observers count up to RunCap consecutive pressed samples
IntRunCap == 62     \* the observer counts up to IntRunCap consecutive intensity steps
MaxPos == 1         \* light positions are followed while every |coordinate| <= MaxPos / 2
MaxTime == 3        \* the clock is followed up to MaxTime ticks
HoldCap == 4        \* the observer counts up to HoldCap frames of a key held alone
MouseCap == 3       \* the observer follows the first MouseCap mouse events
MaxCam == 1         \* m_camera is followed while every |coordinate| <= MaxCam / 10

Min2(a, b) == IF a < b THEN a ELSE b

(***************************************************************************)
(* KeyPressedOnce (edge detection)                                         *)
(***************************************************************************)
\* the value KeyPressedOnce returns for a key sampled `down` whose latch is `latch`
KeyPressedOnceReturns(down, latch) == down /\ ~latch

\* a KeyPressedOnce that forgets to set the latch when it fires
KeyPressedOnceLatch_NeverSet(down, latch) ==
    IF ~down THEN FALSE ELSE latch

\* the latch KeyPressedOnce leaves
KeyPressedOnceLatch(down, latch) ==
    IF down /\ ~latch THEN TRUE
    ELSE IF ~down THEN FALSE
    ELSE latch

\* Whether HandleInteractiveShortcuts calls KeyPressedOnce(k) when the keys ks
\* are down: the calls for = and - stand to the right of a || whose left side
\* is the numpad key.
Called(k, ks) ==
    CASE k = "EQUAL" -> "KP_ADD" \notin ks
      [] k = "MINUS" -> "KP_SUBTRACT" \notin ks
      [] OTHER       -> TRUE

Fires(k, ks) == Called(k, ks) /\ KeyPressedOnceReturns(k \in ks, m_keyOnce[k])

LatchAfter(k, ks) ==
    IF Called(k, ks) THEN KeyPressedOnceLatch(k \in ks, m_keyOnce[k]) ELSE m_keyOnce[k]

(***************************************************************************)
(* HandleInteractiveShortcuts, statement by statement.  h is the record of *)
(* the members the handler writes, ks the keys down, f the keys that fire. *)
(***************************************************************************)
\* speed = base * m_moveSpeedScale * dt, doubled while Left Shift is down
Speed(scale, ks) ==
    LET s == FMul(FMul(F3, scale), F0016)
    IN  IF "LEFT_SHIFT" \in ks THEN FMul(s, F2) ELSE s

\* the m_camera.Move* calls, in program order
CameraMoves(ks, speed) ==
    (IF "W" \in ks THEN <<<<"MoveForward", speed>>>> ELSE <<>>) \o
    (IF "S" \in ks THEN <<<<"MoveBackward", speed>>>> ELSE <<>>) \o
    (IF "A" \in ks THEN <<<<"MoveLeft", speed>>>> ELSE <<>>) \o
    (IF "D" \in ks THEN <<<<"MoveRight", speed>>>> ELSE <<>>) \o
    (IF "Q" \in ks THEN <<<<"MoveDown", speed>>>> ELSE <<>>) \o
    (IF "E" \in ks THEN <<<<"MoveUp", speed>>>> ELSE <<>>)

\* operator<<(float) with the stream's default precision of 6 significant
\* digits, for 0.25 <= f <= 8: the pair <<q, P>> stands for the decimal
\* q / 10^P the text denotes, with P = 6 below 1.0 and P = 5 from 1.0 on;
\* q is f * 10^P rounded to nearest, ties to even
Format6(f) ==
    LET P    == IF FLt(f, F1) THEN 6 ELSE 5
        c    == IF P = 6 THEN 15625 ELSE 3125      \* 10^P / 2^P
        k    == (0 - f[2]) - P - 12                \* f * 10^P = m * c / 2^(k + 12)
        A    == (f[1] \div 4096) * c
        B    == (f[1] % 4096) * c
        A2   == A + (B \div 4096)
        q    == A2 \div Pow2(k)
        rem  == (A2 % Pow2(k)) * 4096 + (B % 4096)
        half == Pow2(k + 11)
        up   == rem > half \/ (rem = half /\ q % 2 = 1)
    IN  <<IF up THEN q + 1 ELSE q, P>>

\* a title that shows the light's index instead of its number
SetWindowTitleWithSelection_ZeroBased(h) == [h EXCEPT !.title = <<h.sel, Format6(h.scale)>>]

\* the title shows the selected light + 1 and the speed multiplier
SetWindowTitleWithSelection(h) == [h EXCEPT !.title = <<h.sel + 1, Format6(h.scale)>>]

\* a halving that does not clamp
SpeedHalve_NoClamp(s) == FMul(s, F05)

\* a halving that clamps at 0.5 instead of 0.25
SpeedHalve_ClampHalf(s) == FMax(F05, FMul(s, F05))

SpeedHalve(s) == FMax(F025, FMul(s, F05))

SpeedDouble(s) == FMin(F8, FMul(s, F2))

Last2(q) == IF Len(q) > 2 THEN Tail(q) ELSE q

\* the observer of speed events: the last two, when it is switched on
Logged(log, key, before, after) ==
    IF observe = "speed" THEN Last2(Append(log, <<key, before, after>>)) ELSE log

StepSpeedScale(h, f) ==
    LET h1 == IF "Z" \in f
              THEN SetWindowTitleWithSelection(
                     [h EXCEPT !.scale = SpeedHalve(h.scale),
                               !.log = Logged(h.log, "Z", h.scale, SpeedHalve(h.scale))])
              ELSE h
    IN  IF "X" \in f
        THEN SetWindowTitleWithSelection(
               [h1 EXCEPT !.scale = SpeedDouble(h1.scale),
                          !.log = Logged(h1.log, "X", h1.scale, SpeedDouble(h1.scale))])
        ELSE h1

\* a selection that stores the key's number instead of the light's index
SelectLight_KeyNumber(h, f, key, index) ==
    IF key \in f THEN SetWindowTitleWithSelection([h EXCEPT !.sel = index + 1]) ELSE h

SelectLight(h, f, key, index) ==
    IF key \in f THEN SetWindowTitleWithSelection([h EXCEPT !.sel = index]) ELSE h

StepSelect(h, f) ==
    SelectLight(SelectLight(SelectLight(SelectLight(h, f, "1", 0), f, "2", 1), f, "3", 2), f, "4", 3)

Nudge(h, ks, key, axis, delta) ==
    IF key \in ks
    THEN [h EXCEPT !.pos[h.sel][axis] = FAdd(h.pos[h.sel][axis], delta)]
    ELSE h

StepNudge(h, ks, speed) ==
    LET h1 == Nudge(h,  ks, "LEFT",      "x", FNeg(speed))
        h2 == Nudge(h1, ks, "RIGHT",     "x", speed)
        h3 == Nudge(h2, ks, "UP",        "z", FNeg(speed))
        h4 == Nudge(h3, ks, "DOWN",      "z", speed)
        h5 == Nudge(h4, ks, "PAGE_UP",   "y", speed)
    IN  Nudge(h5, ks, "PAGE_DOWN", "y", FNeg(speed))

\* toggles in which T always flips the first light
StepToggles_FirstLight(h, f) ==
    LET h1 == IF "L" \in f THEN [h  EXCEPT !.dir   = ~h.dir]    ELSE h
        h2 == IF "F" \in f THEN [h1 EXCEPT !.flash = ~h1.flash] ELSE h1
    IN  IF "T" \in f THEN [h2 EXCEPT !.on[0] = ~h2.on[0]] ELSE h2

\* toggles in which T switches the selected light on instead of flipping it
StepToggles_SwitchOn(h, f) ==
    LET h1 == IF "L" \in f THEN [h  EXCEPT !.dir   = ~h.dir]    ELSE h
        h2 == IF "F" \in f THEN [h1 EXCEPT !.flash = ~h1.flash] ELSE h1
    IN  IF "T" \in f THEN [h2 EXCEPT !.on[h2.sel] = TRUE] ELSE h2

StepToggles(h, f) ==
    LET h1 == IF "L" \in f THEN [h  EXCEPT !.dir   = ~h.dir]    ELSE h
        h2 == IF "F" \in f THEN [h1 EXCEPT !.flash = ~h1.flash] ELSE h1
    IN  IF "T" \in f THEN [h2 EXCEPT !.on[h2.sel] = ~h2.on[h2.sel]] ELSE h2

\* an increment that does not clamp
IntensityUp_NoClamp(v) == FAdd(v, F005)

IntensityUp(v) == FMin(F3, FAdd(v, F005))

IntensityDown(v) == FMax(F0, FSub(v, F005))

IncRuns(ks, f) == "KP_ADD" \in ks \/ "EQUAL" \in f

DecRuns(ks, f) == "KP_SUBTRACT" \in ks \/ "MINUS" \in f

StepIntensity(h, ks, f) ==
    LET h1 == IF IncRuns(ks, f)
              THEN [h EXCEPT !.inten[h.sel] = IntensityUp(h.inten[h.sel])] ELSE h
    IN  IF DecRuns(ks, f)
        THEN [h1 EXCEPT !.inten[h1.sel] = IntensityDown(h1.inten[h1.sel])] ELSE h1

AmbientDown(a) == FMax(F0, FSub(a, F0001))

\* an increment that does not clamp
AmbientUp_NoClamp(a) == FAdd(a, F0001)

AmbientUp(a) == FMin(F03, FAdd(a, F0001))

StepAmbient(h, ks) ==
    LET h1 == IF "SEMICOLON" \in ks THEN [h EXCEPT !.amb = AmbientDown(h.amb)] ELSE h
    IN  IF "APOSTROPHE" \in ks THEN [h1 EXCEPT !.amb = AmbientUp(h1.amb)] ELSE h1

\* a handler whose selection statements come after the light edits
Shortcuts_SelectLast(ks) ==
    LET f  == {k \in EdgeKeys : Fires(k, ks)}
        h0 == [scale |-> m_moveSpeedScale, sel |-> m_selectedPointLight,
               pos |-> m_pointLightPos, on |-> m_pointLightOn, inten |-> m_pointIntensity,
               dir |-> m_dirLightOn, flash |-> m_flashlightOn, amb |-> m_ambientBoost,
               title |-> title, log |-> speedLog]
        sp == Speed(m_moveSpeedScale, ks)
    IN  StepSelect(StepAmbient(StepIntensity(StepToggles(StepNudge(StepSpeedScale(h0, f),
                                                                   ks, sp), f), ks, f), ks), f)

\* the members after the handler has run with the keys ks down
Shortcuts(ks) ==
    LET f  == {k \in EdgeKeys : Fires(k, ks)}
        h0 == [scale |-> m_moveSpeedScale, sel |-> m_selectedPointLight,
               pos |-> m_pointLightPos, on |-> m_pointLightOn, inten |-> m_pointIntensity,
               dir |-> m_dirLightOn, flash |-> m_flashlightOn, amb |-> m_ambientBoost,
               title |-> title, log |-> speedLog]
        sp == Speed(m_moveSpeedScale, ks)
    IN  StepAmbient(StepIntensity(StepToggles(StepNudge(StepSelect(StepSpeedScale(h0, f), f),
                                                       ks, sp), f), ks, f), ks)

(***************************************************************************)
(* Observers.  They read the program's variables and never feed back into  *)
(* them.                                                                   *)
(***************************************************************************)
\* consecutive pressed samples of watch, and how often it fired among them
RunAfter(ks) ==
    IF observe # "edge" \/ ~Called(watch, ks) THEN run
    ELSE IF watch \in ks THEN Min2(run + 1, RunCap) ELSE 0

RunFiresAfter(ks) ==
    IF observe # "edge" \/ ~Called(watch, ks) THEN runFires
    ELSE IF watch \in ks THEN Min2(runFires + (IF Fires(watch, ks) THEN 1 ELSE 0), 2) ELSE 0

\* physical presses of watch as the handler's frames see the key: down is the
\* key's state in the last frame, any says a press has been seen, n counts the
\* fires of the current (or last) press
PhysicalAfter(ks) ==
    LET fire == IF Fires(watch, ks) THEN 1 ELSE 0
    IN  IF observe # "edge" THEN physical
        ELSE IF watch \in ks
        THEN IF physical.down
             THEN [physical EXCEPT !.n = Min2(physical.n + fire, 2)]
             ELSE [down |-> TRUE, any |-> TRUE, n |-> fire]
        ELSE [physical EXCEPT !.down = FALSE]

\* the light parameters before the handler runs, when that observer is on
LightState ==
    [sel |-> m_selectedPointLight, pos |-> m_pointLightPos, on |-> m_pointLightOn,
     inten |-> m_pointIntensity, dir |-> m_dirLightOn, flash |-> m_flashlightOn,
     amb |-> m_ambientBoost]

PrevAfter == IF observe = "lights" THEN LightState ELSE prev

\* the held (level-triggered) keys that were down in the handler's frame
HandledAfter(ks) ==
    IF observe \in {"lights", "ambient", "move"} THEN ks \cap HeldKeys ELSE handled

\* the keys KeyPressedOnce was called for
SampledAfter(ks) == IF observe = "edge" THEN {k \in EdgeKeys : Called(k, ks)} ELSE sampled

\* runs of frames that only increment (or only decrement) one light's intensity
IntRunAfter(ks, f, sel) ==
    LET inc == IncRuns(ks, f)
        dec == DecRuns(ks, f)
        kind == IF inc THEN "inc" ELSE "dec"
    IN  IF observe # "intensity" THEN intRun
        ELSE IF inc = dec
        THEN IF inc THEN [kind |-> "none", light |-> sel, n |-> 0] ELSE intRun
        ELSE IF intRun.kind = kind /\ intRun.light = sel
             THEN [intRun EXCEPT !.n = Min2(intRun.n + 1, IntRunCap)]
             ELSE [kind |-> kind, light |-> sel, n |-> 1]

\* a key of the intensity statements held alone over consecutive frames: n
\* counts the frames, expect is the intensity the selected light has when a
\* numpad key steps in every frame and = or - step in the first frame only
HoldAfter(ks, f) ==
    LET v0   == m_pointIntensity[m_selectedPointLight]
        base == IF hold.n = 0 THEN v0 ELSE hold.expect
        up   == watch \in {"KP_ADD", "EQUAL"}
        step == IF up THEN IntensityUp(base) ELSE IntensityDown(base)
    IN  IF observe # "hold" THEN hold
        ELSE IF ks \cap IntensityKeys # {watch} THEN [n |-> 0, expect |-> F0]
        ELSE [n |-> Min2(hold.n + 1, HoldCap),
              expect |-> IF watch \in {"KP_ADD", "KP_SUBTRACT"} \/ hold.n = 0 THEN step ELSE base]

\* presses of one toggle key: count is 1 after a frame in which only that key
\* fired and 2 after the next such frame, orig is the light state before the
\* first of them; a frame in which anything else edits the light state resets
ToggledAfter(ks, f) ==
    IF observe # "toggle" THEN toggled
    ELSE IF ks \cap LevelLightKeys # {} \/ Cardinality(f) > 1 \/ f \cap DigitKeys # {}
    THEN [key |-> "none", count |-> 0, orig |-> LightState]
    ELSE IF f = {} THEN toggled
    ELSE LET k == CHOOSE k \in f : TRUE
         IN  IF k \notin ToggleKeys THEN [key |-> "none", count |-> 0, orig |-> LightState]
             ELSE IF toggled.key = k /\ toggled.count = 1 THEN [toggled EXCEPT !.count = 2]
             ELSE [key |-> k, count |-> 1, orig |-> LightState]

\* whether a selection or speed event has fired so far
EventedAfter(f) ==
    IF observe = "title" THEN evented \/ f \cap (DigitKeys \cup {"Z", "X"}) # {} ELSE evented

(***************************************************************************)
(* Actions                                                                 *)
(***************************************************************************)
FAbs(a) == <<Abs(a[1]), a[2]>>

InPosBound(pos) ==
    \A i \in Lights : \A axis \in {"x", "y", "z"} : FLe(FAbs(pos[i][axis]), FMul(FInt(MaxPos), F05))

viewVars == <<bOrthographicProjection, windowShouldClose, projection, camCalls,
              gLastFrame, gDeltaTime, pSample, pParity, camPos, uploaded, frame>>

cameraVars == <<Zoom, gFirstMouse, gLastX, gLastY, look, mouseLog, zoomLog, Front, Up>>

\* the shader handle, the uniforms written and SceneManager's tables
textureVars == <<m_textureIDs, glTextures, glUnits, texLog>>

sceneVars == <<shaderPresent, written, nullDeref, cameraExists, m_objectMaterials, textureVars>>

lightVars == <<m_keyOnce, m_moveSpeedScale, m_selectedPointLight, m_pointLightPos,
               m_pointLightOn, m_pointIntensity, m_dirLightOn, m_flashlightOn,
               m_ambientBoost, mCamCalls, mCamPos, title>>
observerVars == <<fired, sampled, handled, prev, watch, observe, run, runFires, physical, speedLog, intRun,
                  hold, toggled, evented>>

\* m_camera.MoveForward(speed) and its five siblings: the position moves by
\* speed along the named direction
MCameraStep(p, call) ==
    CASE call[1] = "MoveForward"  -> [p EXCEPT !.front = FAdd(@, call[2])]
      [] call[1] = "MoveBackward" -> [p EXCEPT !.front = FSub(@, call[2])]
      [] call[1] = "MoveRight"    -> [p EXCEPT !.right = FAdd(@, call[2])]
      [] call[1] = "MoveLeft"     -> [p EXCEPT !.right = FSub(@, call[2])]
      [] call[1] = "MoveUp"       -> [p EXCEPT !.up = FAdd(@, call[2])]
      [] call[1] = "MoveDown"     -> [p EXCEPT !.up = FSub(@, call[2])]

RECURSIVE MoveMCamera(_, _)
MoveMCamera(p, calls) ==
    IF calls = <<>> THEN p ELSE MoveMCamera(MCameraStep(p, Head(calls)), Tail(calls))

InCamBound(p) ==
    \A axis \in {"front", "right", "up"} : FLe(FAbs(p[axis]), FMul(FInt(MaxCam), F01))

\* glfwPollEvents called by the frame loop: the key states are refreshed.
\* K is the set of keys the operator uses.
PollEvents(K) ==
    /\ pc = "loop"
    /\ keys' \in SUBSET K
    /\ UNCHANGED <<pc, now, viewVars, cameraVars, lightVars, observerVars, sceneVars>>

\* the wall clock advances
Tick ==
    /\ now < MaxTime
    /\ now' = now + 1
    /\ UNCHANGED <<pc, keys, viewVars, cameraVars, lightVars, observerVars, sceneVars>>

HandleInteractiveShortcuts ==
    /\ pc = "loop"
    /\ \E ks \in {keys} : \E f \in {{k \in EdgeKeys : Fires(k, keys)}} : \E h \in {Shortcuts(keys)} :
           /\ InPosBound(h.pos)
           /\ mCamCalls' = CameraMoves(ks, Speed(m_moveSpeedScale, ks))
           /\ mCamPos' = MoveMCamera(mCamPos, CameraMoves(ks, Speed(m_moveSpeedScale, ks)))
           /\ InCamBound(mCamPos')
           /\ m_keyOnce' = [k \in EdgeKeys |-> LatchAfter(k, ks)]
           /\ m_moveSpeedScale' = h.scale
           /\ m_selectedPointLight' = h.sel
           /\ m_pointLightPos' = h.pos
           /\ m_pointLightOn' = h.on
           /\ m_pointIntensity' = h.inten
           /\ m_dirLightOn' = h.dir
           /\ m_flashlightOn' = h.flash
           /\ m_ambientBoost' = h.amb
           /\ title' = h.title
           /\ speedLog' = h.log
           /\ fired' = f
           /\ handled' = HandledAfter(ks)
           /\ prev' = PrevAfter
           /\ sampled' = SampledAfter(ks)
           /\ run' = RunAfter(ks)
           /\ runFires' = RunFiresAfter(ks)
           /\ physical' = PhysicalAfter(ks)
           /\ intRun' = IntRunAfter(ks, f, h.sel)
           /\ hold' = HoldAfter(ks, f)
           /\ toggled' = ToggledAfter(ks, f)
           /\ evented' = EventedAfter(f)
    /\ UNCHANGED <<pc, keys, now, watch, observe, viewVars, cameraVars, sceneVars>>

\* the projection PrepareSceneView builds (lines 277-290)
Compose(ortho) ==
    IF ortho THEN [kind |-> "orthographic", fov |-> F0]
    ELSE [kind |-> "perspective", fov |-> Zoom]

\* the g_pCamera->ProcessKeyboard calls of ProcessKeyboardEvents, in program order
KeyboardMoves(ks, dt) ==
    (IF "W" \in ks THEN <<<<"FORWARD", dt>>>> ELSE <<>>) \o
    (IF "S" \in ks THEN <<<<"BACKWARD", dt>>>> ELSE <<>>) \o
    (IF "A" \in ks THEN <<<<"LEFT", dt>>>> ELSE <<>>) \o
    (IF "D" \in ks THEN <<<<"RIGHT", dt>>>> ELSE <<>>) \o
    (IF "Q" \in ks THEN <<<<"UP", dt>>>> ELSE <<>>) \o
    (IF "E" \in ks THEN <<<<"DOWN", dt>>>> ELSE <<>>)

\* (float)glfwGetTime() when the clock stands at n ticks
TimeOf(n) == FMul(FInt(n), F0016)

MovementSpeed == F20

ZeroPos == [front |-> F0, right |-> F0, up |-> F0]

\* Camera::ProcessKeyboard(direction, deltaTime): the position moves by
\* MovementSpeed * deltaTime along the direction's axis
CameraStep(p, call) ==
    LET v == FMul(MovementSpeed, call[2])
    IN  CASE call[1] = "FORWARD"  -> [p EXCEPT !.front = FAdd(@, v)]
          [] call[1] = "BACKWARD" -> [p EXCEPT !.front = FSub(@, v)]
          [] call[1] = "RIGHT"    -> [p EXCEPT !.right = FAdd(@, v)]
          [] call[1] = "LEFT"     -> [p EXCEPT !.right = FSub(@, v)]
          [] call[1] = "UP"       -> [p EXCEPT !.up = FAdd(@, v)]
          [] call[1] = "DOWN"     -> [p EXCEPT !.up = FSub(@, v)]

RECURSIVE MoveCamera(_, _)
MoveCamera(p, calls) ==
    IF calls = <<>> THEN p ELSE MoveCamera(CameraStep(p, Head(calls)), Tail(calls))

\* a close request that lasts only while Esc is down
CloseRequested_WhileHeld(ks, flag) == "ESCAPE" \in ks

\* the close flag after lines 181-184
CloseRequested(ks, flag) == flag \/ "ESCAPE" \in ks

\* an upload of the camera as it was before the frame's key handling
ViewPosition_BeforeInput(start, moves) == start

\* the camera position GetViewMatrix and the viewPosition upload read: they
\* come after ProcessKeyboardEvents (lines 271, 274, 299)
ViewPosition(start, moves) == MoveCamera(start, moves)

ViewUniforms == {"view", "projection", "viewPosition"}

\* lines 292-300: the uploads, made when the shader manager is not NULL
UploadedAfter(proj, pos) ==
    IF shaderPresent THEN [view |-> pos, projection |-> proj, viewPosition |-> pos]
    ELSE uploaded

WrittenAfter(names) == IF shaderPresent THEN written \cup names ELSE written

\* a ProcessKeyboardEvents without the loop
WaitsForRelease_Never(ks) == FALSE

\* whether ProcessKeyboardEvents enters the loop that polls until P is released
WaitsForRelease(ks) == "P" \in ks

\* PrepareSceneView up to the end of ProcessKeyboardEvents' key tests; when P
\* is not down the rest of the frame follows in the same step
PrepareSceneView ==
    /\ pc = "loop"
    /\ \E dt \in {FSub(TimeOf(now), gLastFrame)} :
       \E ortho \in {IF "P" \in keys THEN ~bOrthographicProjection ELSE bOrthographicProjection} :
       \E waits \in {"P" \in keys /\ WaitsForRelease(keys)} :
           /\ gDeltaTime' = dt
           /\ gLastFrame' = TimeOf(now)
           /\ windowShouldClose' = CloseRequested(keys, windowShouldClose)
           /\ camCalls' = KeyboardMoves(keys, dt)
           /\ camPos' = MoveCamera(camPos, KeyboardMoves(keys, dt))
           /\ pSample' = ("P" \in keys)
           /\ pParity' = IF "P" \in keys /\ ~pSample THEN ~pParity ELSE pParity
           /\ bOrthographicProjection' = ortho
           /\ frame' = [keys |-> keys, start |-> camPos,
                        n |-> Min2(frame.n + 1, 2), done |-> ~waits]
           /\ pc' = IF waits THEN "drain" ELSE "loop"
           /\ projection' = IF waits THEN projection ELSE Compose(ortho)
           /\ uploaded' = IF waits THEN uploaded
                          ELSE UploadedAfter(Compose(ortho),
                                             ViewPosition(camPos, KeyboardMoves(keys, dt)))
           /\ written' = IF waits THEN written ELSE WrittenAfter(ViewUniforms)
    /\ UNCHANGED <<keys, now, cameraVars, lightVars, observerVars, shaderPresent, nullDeref,
                   cameraExists, m_objectMaterials, textureVars>>

\* one turn of the loop at lines 221-224: glfwPollEvents, then P is read
\* again; when it is released the frame goes on to build its matrices
DrainPoll(K) ==
    /\ pc = "drain"
    /\ keys' \in SUBSET K
    /\ pSample' = ("P" \in keys')
    /\ IF "P" \in keys'
       THEN UNCHANGED <<pc, projection, uploaded, written, frame>>
       ELSE /\ pc' = "loop"
            /\ projection' = Compose(bOrthographicProjection)
            /\ uploaded' = UploadedAfter(Compose(bOrthographicProjection),
                                         ViewPosition(frame.start, camCalls))
            /\ written' = WrittenAfter(ViewUniforms)
            /\ frame' = [frame EXCEPT !.done = TRUE]
    /\ UNCHANGED <<bOrthographicProjection, windowShouldClose, camCalls, gLastFrame,
                   gDeltaTime, pParity, camPos, now, cameraVars, lightVars, observerVars,
                   shaderPresent, nullDeref, cameraExists, m_objectMaterials, textureVars>>

\* the vectors the constructor assigns (lines 60-61)
DefaultFront == <<F0, FNeg(F05), FNeg(F2)>>

DefaultUp == <<F0, F1, F0>>

Dot(a, b) == FAdd(FAdd(FMul(a[1], b[1]), FMul(a[2], b[2])), FMul(a[3], b[3]))

\* Camera::ProcessMouseMovement recomputes front and up from yaw and pitch
\* as an orthonormal pair; the pairs of a level camera looking along -z or
\* along +x stand for its results
UnitBases ==
    {[front |-> <<F0, F0, FNeg(F1)>>, up |-> <<F0, F1, F0>>],
     [front |-> <<F1, F0, F0>>, up |-> <<F0, F1, F0>>]}

\* A double is a pair <<n, e>> standing for n * 2^e, with any integer n the
\* model's integers hold; a float is such a pair in normal form.
\* (float)d: the conversion the assignments at lines 144-145 and 154-155 make
ToFloat(d) == FSigned(Sgn(d[1]), RoundMag(Abs(d[1]), d[2]))

\* (float)(a - b), the subtraction made in double precision (lines 150-151);
\* the difference of two values of the model is exact in a double
DiffToFloat(a, b) ==
    LET e == IF a[1] = 0 THEN b[2] ELSE IF b[1] = 0 THEN a[2]
             ELSE IF a[2] < b[2] THEN a[2] ELSE b[2]
        A == IF a[1] = 0 THEN 0 ELSE a[1] * Pow2(a[2] - e)
        B == IF b[1] = 0 THEN 0 ELSE b[1] * Pow2(b[2] - e)
    IN  FSigned(Sgn(A - B), RoundMag(Abs(A - B), e))

\* a value in units of 2^-MouseBits; the mouse coordinates of the model and
\* the offsets computed from them are whole numbers of these units
Units(v) ==
    IF v[1] = 0 THEN 0
    ELSE IF v[2] + MouseBits >= 0 THEN v[1] * Pow2(v[2] + MouseBits)
    ELSE v[1] \div Pow2(-(v[2] + MouseBits))

\* the observer of mouse events, when it is switched on: the event's
\* coordinates, those of the event before, the first x and the sum of the
\* x offsets; it follows the first MouseCap events
MouseLogged(x, y, xOffset) ==
    IF observe # "mouse" \/ mouseLog.n >= MouseCap THEN mouseLog
    ELSE [n |-> mouseLog.n + 1, x |-> x, y |-> y, px |-> mouseLog.x, py |-> mouseLog.y,
          fx |-> IF mouseLog.n = 0 THEN x ELSE mouseLog.fx,
          sum |-> mouseLog.sum + Units(xOffset)]

\* Mouse_Position_Callback, invoked from within glfwPollEvents; without a
\* camera line 158 dereferences a null pointer
MousePositionCallback(x, y) ==
    LET lastX == IF gFirstMouse THEN ToFloat(x) ELSE gLastX
        lastY == IF gFirstMouse THEN ToFloat(y) ELSE gLastY
    IN  /\ gFirstMouse' = FALSE
        /\ look' = <<DiffToFloat(x, lastX), DiffToFloat(lastY, y)>>
        /\ gLastX' = ToFloat(x)
        /\ gLastY' = ToFloat(y)
        /\ mouseLog' = MouseLogged(x, y, DiffToFloat(x, lastX))
        /\ nullDeref' = (nullDeref \/ ~cameraExists)
        /\ IF cameraExists
           THEN \E b \in UnitBases : Front' = b.front /\ Up' = b.up
           ELSE UNCHANGED <<Front, Up>>
        /\ UNCHANGED <<pc, keys, now, Zoom, zoomLog, viewVars, lightVars, observerVars,
                       shaderPresent, written, cameraExists, m_objectMaterials, textureVars>>

\* a clamp without the upper bound
ZoomClamp_NoUpper(z) == IF FLt(z, F1) THEN F1 ELSE z

ZoomClamp(z) ==
    LET z1 == IF FLt(z, F1) THEN F1 ELSE z
    IN  IF FLt(F90, z1) THEN F90 ELSE z1

\* the observer of scroll events, when it is switched on
ZoomLogged(yOffset, after) ==
    IF observe = "zoom"
    THEN [delta |-> yOffset, before |-> Zoom, after |-> after, camera |-> cameraExists]
    ELSE zoomLog

\* Scroll_Callback, invoked from within glfwPollEvents
ScrollCallback(yOffset) ==
    /\ Zoom' = IF cameraExists THEN ZoomClamp(FSub(Zoom, FInt(yOffset))) ELSE Zoom
    /\ zoomLog' = ZoomLogged(yOffset, Zoom')
    /\ UNCHANGED <<pc, keys, now, gFirstMouse, gLastX, gLastY, look, mouseLog, Front, Up, viewVars,
                   lightVars, observerVars, sceneVars>>

\* ~ViewManager (lines 71-81): the camera is deleted; the callbacks stay
\* registered with the window
DestroyViewManager ==
    /\ pc = "loop"
    /\ pc' = "destroyed"
    /\ cameraExists' = FALSE
    /\ UNCHANGED <<keys, now, viewVars, cameraVars, lightVars, observerVars, shaderPresent,
                   written, nullDeref, m_objectMaterials, textureVars>>

(***************************************************************************)
(* SceneManager: the texture and material tables and the uniform setters.  *)
(* Both managers are constructed with the same shader manager pointer.     *)
(***************************************************************************)
MaxTextures == 2    \* the frame-loop specifications generate up to MaxTextures texture names
MaxLoaded == 30     \* CreateGLTexture is followed up to MaxLoaded registered textures
MaxNames == 40      \* glGenTextures is followed up to MaxNames texture names
TextureSlots == 16  \* the entries of m_textureIDs
MaxGen == 6         \* the texture specification calls on while fewer than MaxGen names are generated

\* the tags DefineObjectMaterials pushes
MaterialTags == {"wood", "marble1", "leather1", "paper", "leather2", "paper2", "leather3",
                 "marble2", "ground", "grass1", "grass2", "pattern", "fabric", "wood2"}

MaterialUniforms == {"material.diffuseColor", "material.specularColor", "material.shininess",
                     "material.ambientColor", "material.ambientStrength"}

\* FindMaterial: whether a material with the tag is defined
FindMaterial(tag) == tag \in m_objectMaterials

m_loadedTextures == Len(m_textureIDs)

\* the loop of FindTextureSlot over a table: the first slot holding the tag, or -1
SlotOf(table, tag) ==
    IF \E i \in 1..Len(table) : table[i].tag = tag
    THEN (CHOOSE i \in 1..Len(table) :
              /\ table[i].tag = tag
              /\ \A j \in 1..(i - 1) : table[j].tag # tag) - 1
    ELSE -1

FindTextureSlot(tag) == SlotOf(m_textureIDs, tag)

sceneFrame == <<pc, keys, now, viewVars, cameraVars, lightVars, observerVars, shaderPresent,
                cameraExists>>

DefineObjectMaterials ==
    /\ pc = "loop"
    /\ m_objectMaterials' = m_objectMaterials \cup MaterialTags
    /\ UNCHANGED <<sceneFrame, written, nullDeref, textureVars>>

\* glGenTextures(1, &id): a texture name that is not in use, the lowest one
GenTexture(live) ==
    CHOOSE k \in 1..(Cardinality(live) + 1) : k \notin live /\ \A j \in 1..(k - 1) : j \in live

\* the observer of texture-table operations, when it is switched on
TexLogged(op, ok, tag) ==
    IF observe = "texture"
    THEN [op |-> op, before |-> m_textureIDs, live |-> glTextures, ok |-> ok, tag |-> tag]
    ELSE texLog

\* the value CreateGLTexture returns
CreateReturns(image) == image \in {"rgb", "rgba"}

\* the table after lines 113-115
Registered(table, id, tag) == Append(table, [ID |-> id, tag |-> tag])

\* CreateGLTexture on the table and the texture names, st = [table, live,
\* crashed].  image is what stbi_load makes of the file: "unreadable" returns
\* false at once; every other image has a texture name generated, "channels"
\* (a channel count other than 3 and 4) then returns false, "rgb" and "rgba"
\* are registered in slot m_loadedTextures.  No statement compares
\* m_loadedTextures with the size of m_textureIDs: with all TextureSlots
\* entries in use the store goes beyond the array, which is undefined: the
\* process stops, or the entry is stored in the memory behind the array.
CreateIn(st, tag, image, outcome) ==
    IF st.crashed \/ image = "unreadable" THEN st
    ELSE LET id   == GenTexture(st.live)
             live == st.live \cup {id}
         IN  IF ~CreateReturns(image) THEN [st EXCEPT !.live = live]
             ELSE IF Len(st.table) >= TextureSlots /\ outcome = "crash"
             THEN [st EXCEPT !.live = live, !.crashed = TRUE]
             ELSE [st EXCEPT !.live = live, !.table = Registered(st.table, id, tag)]

TextureState == [table |-> m_textureIDs, live |-> glTextures, crashed |-> FALSE]

textureFrame == <<keys, now, viewVars, cameraVars, lightVars, observerVars, shaderPresent,
                  cameraExists, written, nullDeref, m_objectMaterials>>

CreateGLTexture(tag, image) ==
    /\ pc = "loop"
    /\ m_loadedTextures < MaxLoaded
    /\ Cardinality(glTextures) < MaxNames
    /\ \E outcome \in {"crash", "store"} :
        \E st \in {CreateIn(TextureState, tag, image, outcome)} :
           /\ m_textureIDs' = st.table
           /\ glTextures' = st.live
           /\ pc' = IF st.crashed THEN "crashed" ELSE pc
    /\ texLog' = TexLogged("create", CreateReturns(image), tag)
    /\ UNCHANGED <<textureFrame, glUnits>>

\* BindGLTextures: slot i is bound to texture unit i
BoundAfter(table, units) ==
    [i \in 1..(IF Len(table) > Len(units) THEN Len(table) ELSE Len(units)) |->
        IF i <= Len(table) THEN table[i].ID ELSE units[i]]

BindGLTextures ==
    /\ pc = "loop"
    /\ glUnits' = BoundAfter(m_textureIDs, glUnits)
    /\ texLog' = TexLogged("bind", TRUE, "")
    /\ UNCHANGED <<sceneFrame, written, nullDeref, m_objectMaterials, m_textureIDs, glTextures>>

\* a destruction that deletes the textures and empties the table
Regenerate_Delete(table, live) ==
    [table |-> <<>>, live |-> live \ {table[i].ID : i \in 1..Len(table)}]

\* the loop of DestroyGLTextures from slot i on: glGenTextures writes a new
\* name into each slot's ID
RECURSIVE RegenerateFrom(_, _, _)
RegenerateFrom(table, live, i) ==
    IF i > Len(table) THEN [table |-> table, live |-> live]
    ELSE RegenerateFrom([table EXCEPT ![i].ID = GenTexture(live)],
                        live \cup {GenTexture(live)}, i + 1)

Regenerate(table, live) == RegenerateFrom(table, live, 1)

DestroyGLTextures ==
    /\ pc = "loop"
    /\ Cardinality(glTextures) + m_loadedTextures <= MaxNames
    /\ m_textureIDs' = Regenerate(m_textureIDs, glTextures).table
    /\ glTextures' = Regenerate(m_textureIDs, glTextures).live
    /\ texLog' = TexLogged("destroy", TRUE, "")
    /\ UNCHANGED <<sceneFrame, written, nullDeref, m_objectMaterials, glUnits>>

\* the tags of LoadSceneTextures, in the order of its calls (lines 366-379)
SceneTextureTags ==
    <<"wood", "marble1", "leather1", "paper", "leather2", "paper2", "leather3",
      "marble2", "ground", "grass1", "grass2", "pattern", "fabric", "wood2">>

\* the CreateGLTexture calls of LoadSceneTextures from the i-th on; the files
\* are JPEG images, read with three channels when they can be read at all
RECURSIVE LoadFrom(_, _, _, _)
LoadFrom(st, i, loadable, outcome) ==
    IF i > Len(SceneTextureTags) THEN st
    ELSE LoadFrom(CreateIn(st, SceneTextureTags[i],
                           IF SceneTextureTags[i] \in loadable THEN "rgb" ELSE "unreadable",
                           outcome),
                  i + 1, loadable, outcome)

\* LoadSceneTextures: loadable is the set of tags whose files can be read
LoadSceneTextures(loadable, outcome) ==
    /\ pc = "loop"
    /\ m_loadedTextures + Len(SceneTextureTags) <= MaxLoaded
    /\ Cardinality(glTextures) + Len(SceneTextureTags) <= MaxNames
    /\ \E st \in {LoadFrom(TextureState, 1, loadable, outcome)} :
           /\ m_textureIDs' = st.table
           /\ glTextures' = st.live
           /\ pc' = IF st.crashed THEN "crashed" ELSE pc
           /\ glUnits' = IF st.crashed THEN glUnits ELSE BoundAfter(st.table, glUnits)
    /\ texLog' = TexLogged("load", TRUE, "")
    /\ UNCHANGED textureFrame

\* a setter that tests the shader manager for NULL before its writes
GuardedSetter(names) ==
    /\ pc = "loop"
    /\ written' = WrittenAfter(names)
    /\ UNCHANGED <<sceneFrame, nullDeref, m_objectMaterials, textureVars>>

SetTransformations == GuardedSetter({"model"})

SetShaderColor == GuardedSetter({"bUseTexture", "objectColor"})

SetTextureUVScale == GuardedSetter({"UVscale"})

SetShaderTexture(tag) ==
    GuardedSetter(IF FindTextureSlot(tag) < 0 THEN {} ELSE {"bUseTexture", "objectTexture"})

\* SetShaderMaterial (lines 338-353) has no test of the shader manager: when
\* the material is found the five writes go through the pointer.  Through a
\* null pointer that is undefined behaviour: the process stops, or the calls
\* go on into the shader library.
SetShaderMaterial(tag, outcome) ==
    /\ pc = "loop"
    /\ IF ~FindMaterial(tag)
       THEN UNCHANGED <<pc, written, nullDeref>>
       ELSE IF shaderPresent
       THEN /\ written' = written \cup MaterialUniforms
            /\ UNCHANGED <<pc, nullDeref>>
       ELSE /\ nullDeref' = TRUE
            /\ pc' = IF outcome = "crash" THEN "crashed" ELSE pc
            /\ written' = IF outcome = "crash" THEN written ELSE written \cup MaterialUniforms
    /\ UNCHANGED <<keys, now, viewVars, cameraVars, lightVars, observerVars, shaderPresent,
                   cameraExists, m_objectMaterials, textureVars>>

(***************************************************************************)
(* Initial states.  The members of ViewManager (declared in ViewManager.h) *)
(* start as the design describes them: latches clear, speed multiplier and *)
(* light parameters inside their clamps, light 0 selected.                 *)
(***************************************************************************)
InitView ==
    /\ pc = "loop"
    /\ keys = {}
    /\ bOrthographicProjection = FALSE
    /\ windowShouldClose = FALSE
    /\ projection = [kind |-> "none", fov |-> F0]
    /\ Zoom = F80
    /\ gFirstMouse = TRUE
    /\ gLastX = FMul(FInt(WINDOW_WIDTH), F05)
    /\ gLastY = FMul(FInt(WINDOW_HEIGHT), F05)
    /\ look = <<F0, F0>>
    /\ mouseLog = [n |-> 0, x |-> <<0, 0>>, y |-> <<0, 0>>, px |-> <<0, 0>>, py |-> <<0, 0>>,
                   fx |-> <<0, 0>>, sum |-> 0]
    /\ camCalls = <<>>
    /\ now = 0
    /\ gLastFrame = F0
    /\ gDeltaTime = F0
    /\ pSample = FALSE
    /\ pParity = FALSE
    /\ cameraExists = TRUE
    /\ camPos = ZeroPos
    /\ Front = DefaultFront
    /\ Up = DefaultUp
    /\ uploaded = [view |-> ZeroPos, projection |-> [kind |-> "none", fov |-> F0],
                   viewPosition |-> ZeroPos]
    /\ frame = [keys |-> {}, start |-> ZeroPos, n |-> 0, done |-> TRUE]
    /\ zoomLog = [delta |-> 0, before |-> F80, after |-> F80, camera |-> TRUE]

\* the shader handle the constructors were given, and SceneManager's tables
InitScene(shader) ==
    /\ shaderPresent = shader
    /\ written = {}
    /\ nullDeref = FALSE
    /\ m_objectMaterials = {}
    /\ m_textureIDs = <<>>
    /\ glTextures = {}
    /\ glUnits = <<>>
    /\ texLog = [op |-> "none", before |-> <<>>, live |-> {}, ok |-> TRUE, tag |-> ""]

InitMembers(scale0, sel0, inten0, amb0) ==
    /\ m_keyOnce = [k \in EdgeKeys |-> FALSE]
    /\ m_moveSpeedScale = scale0
    /\ m_selectedPointLight = sel0
    /\ m_pointLightPos = [i \in Lights |-> [x |-> F0, y |-> F0, z |-> F0]]
    /\ m_pointLightOn = [i \in Lights |-> TRUE]
    /\ m_pointIntensity = [i \in Lights |-> inten0]
    /\ m_dirLightOn = TRUE
    /\ m_flashlightOn = FALSE
    /\ m_ambientBoost = amb0
    /\ mCamCalls = <<>>
    /\ mCamPos = [front |-> F0, right |-> F0, up |-> F0]
    /\ title = <<>>

InitObservers(w, o) ==
    /\ observe = o
    /\ handled = {}
    /\ prev = LightState
    /\ fired = {}
    /\ sampled = {}
    /\ watch = w
    /\ run = 0
    /\ runFires = 0
    /\ physical = [down |-> FALSE, any |-> FALSE, n |-> 0]
    /\ speedLog = <<>>
    /\ intRun = [kind |-> "none", light |-> 0, n |-> 0]
    /\ hold = [n |-> 0, expect |-> F0]
    /\ toggled = [key |-> "none", count |-> 0, orig |-> LightState]
    /\ evented = FALSE

\* the whole program: every key, the clock, both key handlers, mouse and scroll
Init ==
    /\ InitView
    /\ InitMembers(F1, 0, F1, F0)
    /\ InitScene(TRUE)
    /\ InitObservers("Z", "none")

Next ==
    \/ PollEvents(AllKeys)
    \/ Tick
    \/ PrepareSceneView
    \/ DrainPoll(AllKeys)
    \/ HandleInteractiveShortcuts
    \/ \E x, y \in {<<0, 0>>, <<400, 0>>, <<16777217, -16>>} : MousePositionCallback(x, y)
    \/ \E d \in {-100, -1, 1, 100} : ScrollCallback(d)
    \/ DestroyViewManager
    \/ DefineObjectMaterials
    \/ \E tag \in {"wood", "missing"} : \E image \in {"rgb", "rgba", "channels", "unreadable"} :
           Cardinality(glTextures) < MaxTextures /\ CreateGLTexture(tag, image)
    \/ BindGLTextures
    \/ DestroyGLTextures
    \/ \E loadable \in {{}, {SceneTextureTags[i] : i \in 1..Len(SceneTextureTags)}} :
       \E outcome \in {"crash", "store"} : LoadSceneTextures(loadable, outcome)
    \/ SetTransformations
    \/ SetShaderColor
    \/ SetTextureUVScale
    \/ \E tag \in {"wood", "missing"} : SetShaderTexture(tag)
    \/ \E tag \in {"wood", "missing"} : \E outcome \in {"crash", "call"} :
           SetShaderMaterial(tag, outcome)

Spec == Init /\ [][Next]_vars

\* the numpad key that shares a statement with the key k, if any
NumpadOf(k) ==
    CASE k = "EQUAL" -> {"KP_ADD"}
      [] k = "MINUS" -> {"KP_SUBTRACT"}
      [] OTHER       -> {}

\* edge detection: one edge-triggered key together with the numpad keys
InitEdge ==
    /\ InitView
    /\ InitMembers(F1, 0, F1, F0)
    /\ InitScene(TRUE)
    /\ \E w \in EdgeKeys : InitObservers(w, "edge")

NextEdge ==
    \/ PollEvents({watch} \cup NumpadOf(watch))
    \/ HandleInteractiveShortcuts

SpecEdge == InitEdge /\ [][NextEdge]_vars

(***************************************************************************)
(* Properties                                                              *)
(***************************************************************************)
\* C1: a key read through KeyPressedOnce that is sampled pressed in
\* consecutive samples, with no released sample in between, fires in exactly
\* one of them, the first; the first pressed sample after a released sample
\* fires again.
C1_FiresOncePerHold ==
    /\ watch \in fired => run = 1
    /\ run >= 1 => runFires = 1

\* a key has been sampled pressed ten times in a row and fired once, in an
\* earlier frame
C1_Witness == run = 10 /\ runFires = 1 /\ watch \notin fired /\ watch \in sampled

\* C2: every physical press of an edge-triggered key (the key is down in a
\* frame and was up in the frame before) produces exactly one discrete
\* action: while the key is down it has fired at most once, and once it is up
\* again the press has fired exactly once.
C2_OneActionPerPress ==
    physical.any => IF physical.down THEN physical.n <= 1 ELSE physical.n = 1

\* the view: projection toggle, window close, camera keys, mouse and scroll
ViewKeySet == {"P", "ESCAPE", "W"}

ScrollDeltas == {-100, 100}

\* cursor coordinates the mouse events carry
MouseCoords == {<<400, 0>>, <<16777217, -MouseBits>>}

InitViewSpec ==
    /\ InitView
    /\ InitMembers(F1, 0, F1, F0)
    /\ InitScene(TRUE)
    /\ InitObservers("Z", "none")

NextView ==
    \/ PollEvents(ViewKeySet)
    \/ PrepareSceneView
    \/ DrainPoll(ViewKeySet)
    \/ \E x, y \in MouseCoords : MousePositionCallback(x, y)
    \/ \E d \in ScrollDeltas : ScrollCallback(d)

SpecView == InitViewSpec /\ [][NextView]_vars

\* C3: the projection mode is Orthographic exactly when an odd number of
\* presses of P has been observed, however long each press is held, and the
\* projection a finished frame has built is the one of the mode.
C3_ModeFollowsPresses ==
    /\ bOrthographicProjection = pParity
    /\ (pc = "loop" /\ projection.kind # "none") =>
           projection.kind = IF bOrthographicProjection THEN "orthographic" ELSE "perspective"

\* one press of P has been observed and released, and the frame built the
\* orthographic projection
C3_Witness ==
    /\ pc = "loop"
    /\ bOrthographicProjection
    /\ ~pSample
    /\ projection.kind = "orthographic"

\* C4: no per-frame operation waits on input: PrepareSceneView is never
\* found polling for events inside ProcessKeyboardEvents.
C4_NeverWaitsOnInput == pc # "drain"

\* the speed multiplier: Z and X, from any multiplier inside [0.25, 8]
F06 == <<10066330, -24>>       \* 0.6f
F5  == <<10485760, -21>>       \* 5.0f

InitScales == {F025, F06, F1, F3, F5, F8}

SpeedKeySet == {"Z", "X"}

InitSpeed ==
    /\ InitView
    /\ \E s \in InitScales : InitMembers(s, 0, F1, F0)
    /\ InitScene(TRUE)
    /\ InitObservers("Z", "speed")

NextSpeed ==
    \/ PollEvents(SpeedKeySet)
    \/ HandleInteractiveShortcuts

SpecSpeed == InitSpeed /\ [][NextSpeed]_vars

InSpeedRange(s) == FLe(F025, s) /\ FLe(s, F8)

ClampSpeed(s) == IF FLt(s, F025) THEN F025 ELSE IF FLt(F8, s) THEN F8 ELSE s

\* C5: the speed multiplier stays inside [0.25, 8.0], and each Z or X event
\* leaves the multiplier it found times 0.5 or 2.0, clamped to that range.
C5_SpeedScaleInRange ==
    /\ InSpeedRange(m_moveSpeedScale)
    /\ \A i \in 1..Len(speedLog) :
           speedLog[i][3] = ClampSpeed(FMul(speedLog[i][2],
                                            IF speedLog[i][1] = "Z" THEN F05 ELSE F2))

\* a halving whose product fell below 0.25 and was clamped up to it
C5_Witness ==
    /\ Len(speedLog) = 2
    /\ speedLog[2][1] = "Z"
    /\ FLt(F025, speedLog[2][2])
    /\ FLt(FMul(speedLog[2][2], F05), F025)
    /\ speedLog[2][3] = F025
    /\ m_moveSpeedScale = F025

\* C6: a doubling followed by a halving gives back the multiplier it started
\* from when the double does not exceed 8.0, and a halving followed by a
\* doubling does when the half is not below 0.25.
C6_DoubleHalveIdentity ==
    (Len(speedLog) = 2 /\ InSpeedRange(speedLog[1][2])) =>
        LET a == speedLog[1][2]
            c == speedLog[2][3]
        IN  /\ (speedLog[1][1] = "X" /\ speedLog[2][1] = "Z" /\ FLe(FMul(a, F2), F8)) => c = a
            /\ (speedLog[1][1] = "Z" /\ speedLog[2][1] = "X" /\ FLe(F025, FMul(a, F05))) => c = a

\* from 1.0, X and then Z: back at exactly 1.0
C6_Witness ==
    /\ speedLog = <<<<"X", F1, F2>>, <<"Z", F2, F1>>>>
    /\ m_moveSpeedScale = F1

\* the intensity of the selected light under numpad + and numpad -, for each
\* light (= and - step the intensity through the same two statements)
IntensityKeySet == {"KP_ADD", "KP_SUBTRACT"}

InitIntensities == {F1}

InitIntensity ==
    /\ InitView
    /\ \E sel \in Lights : \E v \in InitIntensities : InitMembers(F1, sel, v, F0)
    /\ InitScene(TRUE)
    /\ InitObservers("EQUAL", "intensity")

NextIntensity ==
    \/ PollEvents(IntensityKeySet)
    \/ HandleInteractiveShortcuts

SpecIntensity == InitIntensity /\ [][NextIntensity]_vars

\* increments (decrements) in a row after which a light is saturated from
\* anywhere in [0, 3]: 3.0 / 0.05 = 60, and one more for the rounding of the
\* float sums
SaturationSteps == 61

\* C7: every light's intensity stays in [0, 3]; once a light has been
\* incremented in SaturationSteps frames in a row its intensity is 3.0 and
\* further increments leave it there, and likewise 0.0 for decrements.
C7_IntensityClamped ==
    /\ \A i \in Lights : FLe(F0, m_pointIntensity[i]) /\ FLe(m_pointIntensity[i], F3)
    /\ (intRun.kind = "inc" /\ intRun.n >= SaturationSteps) => m_pointIntensity[intRun.light] = F3
    /\ (intRun.kind = "dec" /\ intRun.n >= SaturationSteps) => m_pointIntensity[intRun.light] = F0

\* a light has been incremented in more frames than it takes to saturate
C7_Witness ==
    /\ intRun.kind = "inc"
    /\ intRun.n > SaturationSteps
    /\ m_pointIntensity[intRun.light] = F3

\* the ambient boost: ; and ' held, from any boost inside [0, 0.3]
InitAmbients == {F0, F01, F03}

AmbientKeySet == {"SEMICOLON", "APOSTROPHE"}

InitAmbient ==
    /\ InitView
    /\ \E a \in InitAmbients : InitMembers(F1, 0, F1, a)
    /\ InitScene(TRUE)
    /\ InitObservers("Z", "ambient")

NextAmbient ==
    \/ PollEvents(AmbientKeySet)
    \/ HandleInteractiveShortcuts

SpecAmbient == InitAmbient /\ [][NextAmbient]_vars

\* C8: the ambient boost stays inside [0, 0.3] (0.3 being the float the
\* program clamps to) whichever of ; and ' are held in a frame.
C8_AmbientInRange == FLe(F0, m_ambientBoost) /\ FLe(m_ambientBoost, F03)

\* both keys were held in a frame that ended with the boost at the upper clamp
C8_Witness ==
    /\ handled = {"SEMICOLON", "APOSTROPHE"}
    /\ m_ambientBoost = F03

\* light selection and the per-light toggle, with a position nudge key; the
\* speed multiplier starts at 8 so that few positions lie within MaxPos
LightKeySet == {"3", "4", "T", "LEFT"}

InitLights ==
    /\ InitView
    /\ InitMembers(F8, 0, F1, F0)
    /\ InitScene(TRUE)
    /\ InitObservers("T", "lights")

NextLights ==
    \/ PollEvents(LightKeySet)
    \/ HandleInteractiveShortcuts

SpecLights == InitLights /\ [][NextLights]_vars

DigitIndex(k) == CASE k = "1" -> 0 [] k = "2" -> 1 [] k = "3" -> 2 [] k = "4" -> 3

\* C9: with light 2 selected, a frame in which T fires and no other light key
\* acts negates the enabled flag of light 2 and leaves the flags of lights 0,
\* 1 and 3, every position and intensity, the directional flag, the
\* flashlight flag and the ambient boost as they were.
C9_ToggleSelectedOnly ==
    (fired = {"T"} /\ handled \cap LevelLightKeys = {} /\ prev.sel = 2) =>
        /\ m_pointLightOn = [prev.on EXCEPT ![2] = ~prev.on[2]]
        /\ m_pointLightPos = prev.pos
        /\ m_pointIntensity = prev.inten
        /\ m_dirLightOn = prev.dir
        /\ m_flashlightOn = prev.flash
        /\ m_ambientBoost = prev.amb
        /\ m_selectedPointLight = 2

\* light 2 was selected, a light was moved, and then T alone was pressed
C9_Witness ==
    /\ fired = {"T"}
    /\ handled = {}
    /\ prev.sel = 2
    /\ prev.on[2]
    /\ ~m_pointLightOn[2]
    /\ \E i \in Lights : m_pointLightPos[i].x # F0

\* C10: the selected-light index is one of 0..3; a frame in which exactly one
\* digit key fires leaves the index at that digit minus one, and a frame in
\* which no digit key fires leaves the index as it was.
C10_SelectionInRange ==
    /\ m_selectedPointLight \in Lights
    /\ fired \cap DigitKeys = {} => m_selectedPointLight = prev.sel
    /\ \A k \in DigitKeys : fired \cap DigitKeys = {k} => m_selectedPointLight = DigitIndex(k)

\* key 4 fired while another light was selected
C10_Witness ==
    /\ fired = {"4"}
    /\ prev.sel = 2
    /\ m_selectedPointLight = 3

\* the uniform writes of both managers, with and without a shader manager
ShaderKeySet == {"W", "P"}

SceneTags == {"wood", "missing"}

InitShader ==
    /\ InitView
    /\ InitMembers(F1, 0, F1, F0)
    /\ \E shader \in BOOLEAN : InitScene(shader)
    /\ InitObservers("Z", "none")

NextShader ==
    \/ PollEvents(ShaderKeySet)
    \/ PrepareSceneView
    \/ DrainPoll(ShaderKeySet)
    \/ DefineObjectMaterials
    \/ \E tag \in SceneTags : \E image \in {"rgb", "rgba", "channels", "unreadable"} :
           Cardinality(glTextures) < MaxTextures /\ CreateGLTexture(tag, image)
    \/ SetTransformations
    \/ SetShaderColor
    \/ SetTextureUVScale
    \/ \E tag \in SceneTags : SetShaderTexture(tag)
    \/ \E tag \in SceneTags : \E outcome \in {"crash", "call"} : SetShaderMaterial(tag, outcome)

SpecShader == InitShader /\ [][NextShader]_vars

\* C11: while the shader manager is NULL no uniform is written and the null
\* pointer is never dereferenced, whichever of PrepareSceneView,
\* SetTransformations, SetShaderColor, SetShaderTexture, SetTextureUVScale and
\* SetShaderMaterial run.
C11_NullShaderSkipsUploads == ~shaderPresent => (written = {} /\ ~nullDeref)

\* camera movement: the movement keys in both key handlers
MoveKeySet == {"W", "Q", "E"}

InitMove ==
    /\ InitView
    /\ InitMembers(F1, 0, F1, F0)
    /\ InitScene(TRUE)
    /\ InitObservers("Z", "move")

NextMove ==
    \/ PollEvents(MoveKeySet)
    \/ PrepareSceneView
    \/ HandleInteractiveShortcuts

SpecMove == InitMove /\ [][NextMove]_vars

\* whether a call of the named kind is among the calls
HasCall(calls, name) == \E i \in 1..Len(calls) : calls[i][1] = name

\* C12: in both key handlers Q is the downward move and E the upward move:
\* ProcessKeyboardEvents calls the camera with DOWN exactly when it sampled Q
\* pressed and with UP exactly when it sampled E pressed, and
\* HandleInteractiveShortcuts calls MoveDown for Q and MoveUp for E.
C12_QDownEUp ==
    /\ "Q" \in frame.keys <=> HasCall(camCalls, "DOWN")
    /\ "E" \in frame.keys <=> HasCall(camCalls, "UP")
    /\ "Q" \in handled <=> HasCall(mCamCalls, "MoveDown")
    /\ "E" \in handled <=> HasCall(mCamCalls, "MoveUp")

\* zoom: scroll events of small and large deltas, before and after the camera
\* is deleted
ZoomDeltas == {-100, -7, -1, 1, 7, 100}

InitZoom ==
    /\ InitView
    /\ InitMembers(F1, 0, F1, F0)
    /\ InitScene(TRUE)
    /\ InitObservers("Z", "zoom")

NextZoom ==
    \/ \E d \in ZoomDeltas : ScrollCallback(d)
    \/ DestroyViewManager

SpecZoom == InitZoom /\ [][NextZoom]_vars

\* the field of view less the delta, brought into [1, 90]
ZoomExpected(before, delta) ==
    LET z == FSub(before, FInt(delta))
    IN  IF FLt(z, F1) THEN F1 ELSE IF FLt(F90, z) THEN F90 ELSE z

\* C13: from the default 80 the field of view stays inside [1, 90] under
\* every sequence of scroll events; an event leaves the field of view it
\* found less its delta, clamped to [1, 90], and an event that arrives when
\* no camera exists leaves the field of view as it was.
C13_ZoomInRange ==
    /\ FLe(F1, Zoom) /\ FLe(Zoom, F90)
    /\ Zoom = zoomLog.after
    /\ zoomLog.camera => zoomLog.after = ZoomExpected(zoomLog.before, zoomLog.delta)
    /\ ~zoomLog.camera => zoomLog.after = zoomLog.before

\* a scroll of -7 from a field of view between 83 and 90 was clamped to 90
C13_Witness ==
    /\ zoomLog.camera
    /\ zoomLog.delta = -7
    /\ FLt(zoomLog.before, F90)
    /\ FLt(F90, FSub(zoomLog.before, FInt(zoomLog.delta)))
    /\ Zoom = F90

\* the frame: the clock, the keys of ProcessKeyboardEvents, and the uploads
FrameKeySet == {"W", "S", "P", "ESCAPE"}

InitFrame ==
    /\ InitView
    /\ InitMembers(F1, 0, F1, F0)
    /\ InitScene(TRUE)
    /\ InitObservers("Z", "none")

NextFrame ==
    \/ PollEvents(FrameKeySet)
    \/ Tick
    \/ PrepareSceneView
    \/ DrainPoll(FrameKeySet)

SpecFrame == InitFrame /\ [][NextFrame]_vars

C15_CloseRequestKept ==
    /\ []("ESCAPE" \in frame.keys => windowShouldClose)
    /\ [][windowShouldClose => windowShouldClose']_vars
    /\ []((pc = "loop" /\ "ESCAPE" \in frame.keys) =>
              /\ frame.done
              /\ projection.kind # "none"
              /\ uploaded.projection = projection
              /\ uploaded.viewPosition = camPos)

\* Esc was sampled in an earlier frame, a later frame without Esc has run to
\* its end, and the close request stands
C15_Witness ==
    /\ windowShouldClose
    /\ pc = "loop"
    /\ frame.n = 2 /\ frame.done
    /\ "ESCAPE" \notin frame.keys

\* the pace of movement: the clock, W and Left Shift in both key handlers
PaceKeySet == {"W", "LEFT_SHIFT"}

InitPace ==
    /\ InitView
    /\ InitMembers(F1, 0, F1, F0)
    /\ InitScene(TRUE)
    /\ InitObservers("Z", "pace")

NextPace ==
    \/ PollEvents(PaceKeySet)
    \/ Tick
    \/ PrepareSceneView
    \/ HandleInteractiveShortcuts

SpecPace == InitPace /\ [][NextPace]_vars

\* C16: from the startup camera, with the speed multiplier at 1.0 and Left
\* Shift up, a first frame of 0.016 s in which W alone is held moves the
\* camera the view matrix is built from by 3.0 * 1.0 * 0.016 along its front
\* direction, and not along the other two.
C16_WMovesViewCamera ==
    (/\ frame.n = 1 /\ frame.done
     /\ frame.keys = {"W"}
     /\ gDeltaTime = F0016
     /\ m_moveSpeedScale = F1) =>
        /\ frame.start = ZeroPos
        /\ camPos = [ZeroPos EXCEPT !.front = FMul(FMul(F3, F1), F0016)]
        /\ uploaded.view = camPos

\* the intensity keys held over frames: one of the four keys is followed,
\* together with the other key of its statement
HoldGroup(k) == IF k \in {"KP_ADD", "EQUAL"} THEN {"KP_ADD", "EQUAL"} ELSE {"KP_SUBTRACT", "MINUS"}

InitHold ==
    /\ InitView
    /\ InitMembers(F1, 0, F1, F0)
    /\ InitScene(TRUE)
    /\ \E w \in IntensityKeys : InitObservers(w, "hold")

NextHold ==
    \/ PollEvents(HoldGroup(watch))
    \/ HandleInteractiveShortcuts

SpecHold == InitHold /\ [][NextHold]_vars

\* C17: while numpad + (numpad -) alone is held the selected light's
\* intensity takes one step of 0.05 in every frame, saturating at the clamp,
\* and while = (-) alone is held it takes one step in the first frame and
\* none in the frames after.
C17_HeldVersusEdge ==
    hold.n >= 1 => m_pointIntensity[m_selectedPointLight] = hold.expect

\* the numpad half of C17 alone
C17_NumpadSteps ==
    (watch \in {"KP_ADD", "KP_SUBTRACT"} /\ hold.n >= 1) =>
        m_pointIntensity[m_selectedPointLight] = hold.expect

\* the window title: speed and selection keys
TitleKeySet == {"Z", "X", "2", "3"}

TitleScales == {F1, F06}

InitTitle ==
    /\ InitView
    /\ \E s \in TitleScales : InitMembers(s, 0, F1, F0)
    /\ InitScene(TRUE)
    /\ InitObservers("Z", "title")

NextTitle ==
    \/ PollEvents(TitleKeySet)
    \/ HandleInteractiveShortcuts

SpecTitle == InitTitle /\ [][NextTitle]_vars

\* C18: from the first selection or speed event on, the title at the end of
\* every frame shows the selected light counted from 1 and the speed
\* multiplier as it then is.
C18_TitleCurrent ==
    evented => title = <<m_selectedPointLight + 1, Format6(m_moveSpeedScale)>>

\* light 2 selected and the speed halved from 1.0, in a frame before the last
\* one: the title reads light 3 and speed 0.5
C18_Witness ==
    /\ evented
    /\ fired = {}
    /\ m_selectedPointLight = 2
    /\ m_moveSpeedScale = F05
    /\ title = <<3, <<500000, 6>>>>

\* the toggles: L, F and T, with one selection key
ToggleKeySet == {"L", "F", "T", "2"}

InitToggle ==
    /\ InitView
    /\ InitMembers(F1, 0, F1, F0)
    /\ InitScene(TRUE)
    /\ InitObservers("T", "toggle")

NextToggle ==
    \/ PollEvents(ToggleKeySet)
    \/ HandleInteractiveShortcuts

SpecToggle == InitToggle /\ [][NextToggle]_vars

\* the light state st with the boolean of toggle key k negated
Flipped(st, k) ==
    CASE k = "L" -> [st EXCEPT !.dir = ~st.dir]
      [] k = "F" -> [st EXCEPT !.flash = ~st.flash]
      [] k = "T" -> [st EXCEPT !.on[st.sel] = ~st.on[st.sel]]

\* C19: an edge press of L, F or T negates its one boolean (the directional
\* flag, the flashlight flag, the selected light's enabled flag) and leaves
\* the rest of the light state alone; a second edge press of the same key,
\* with no selection change in between, gives back the light state as it was
\* before the first.
C19_TogglesFlipBack ==
    /\ toggled.count = 1 => LightState = Flipped(toggled.orig, toggled.key)
    /\ toggled.count = 2 => LightState = toggled.orig

\* T has been pressed twice with light 1 selected, after the directional
\* light had been switched off
C19_Witness ==
    /\ toggled.key = "T" /\ toggled.count = 2
    /\ toggled.orig.sel = 1
    /\ ~toggled.orig.dir
    /\ LightState = toggled.orig

\* base speed times the speed multiplier times a frame's delta-time, doubled
\* while Left Shift is down
FrameSpeed(scale, dt, ks) ==
    LET s == FMul(FMul(F3, scale), dt)
    IN  IF "LEFT_SHIFT" \in ks THEN FMul(s, F2) ELSE s

\* C20: once a frame's delta-time has been measured, every distance that
\* HandleInteractiveShortcuts hands to a camera move or adds to a light
\* position for a held key is base speed * speed multiplier * that measured
\* delta-time, doubled while Left Shift is held.
C20_DistanceFollowsDeltaTime ==
    [][(/\ frame.n >= 1
        /\ gDeltaTime # F0
        /\ (mCamCalls' # mCamCalls \/ m_pointLightPos' # m_pointLightPos)) =>
           LET d == FrameSpeed(m_moveSpeedScale, gDeltaTime, keys)
           IN  /\ \A i \in 1..Len(mCamCalls') : mCamCalls'[i][2] = d
               /\ m_pointLightPos' =
                      StepNudge([pos |-> m_pointLightPos, sel |-> m_selectedPointLight],
                                keys, d).pos]_vars

\* C21: there is one camera: every step in which the W/S/A/D/Q/E statements
\* of HandleInteractiveShortcuts move their camera moves, by the same calls,
\* the camera whose position PrepareSceneView uploads as viewPosition and
\* builds the view matrix from.
C21_SingleCamera ==
    [][mCamPos' # mCamPos => camPos' = MoveMCamera(camPos, mCamCalls')]_vars

\* C22: in every state of the camera, the state the constructor leaves
\* included, front and up are unit vectors at right angles:
\* front . up = 0, |front|^2 = 1 and |up|^2 = 1.
C22_FrontUpOrthonormal ==
    cameraExists =>
        /\ Dot(Front, Up) = F0
        /\ Dot(Front, Front) = F1
        /\ Dot(Up, Up) = F1

\* the texture table: textures are created, bound and "destroyed"
TextureTags == {"wood", "marble1"}

InitTexture ==
    /\ InitView
    /\ InitMembers(F1, 0, F1, F0)
    /\ InitScene(TRUE)
    /\ InitObservers("Z", "texture")

NextTexture ==
    \/ \E tag \in TextureTags : \E image \in {"rgb", "rgba", "channels", "unreadable"} :
           /\ m_loadedTextures < MaxTextures
           /\ Cardinality(glTextures) < MaxGen
           /\ CreateGLTexture(tag, image)
    \/ BindGLTextures
    \/ Cardinality(glTextures) < MaxGen /\ DestroyGLTextures

SpecTexture == InitTexture /\ [][NextTexture]_vars

\* the texture names a table refers to
NamesOf(table) == {table[i].ID : i \in 1..Len(table)}

OrderEditKeys == {"T", "LEFT", "KP_ADD"}

NearFullIntensity == FSub(F3, F005)

InitOrder ==
    /\ InitView
    /\ InitMembers(F8, 0, NearFullIntensity, F0)
    /\ InitScene(TRUE)
    /\ \E w \in OrderEditKeys : InitObservers(w, "lights")

NextOrder ==
    \/ PollEvents({"1", "2", watch})
    \/ HandleInteractiveShortcuts

SpecOrder == InitOrder /\ [][NextOrder]_vars

\* the highest light index among the digit keys that fired
LastSelected(f) ==
    CHOOSE i \in Lights :
        /\ \E k \in f \cap DigitKeys : DigitIndex(k) = i
        /\ \A k \in f \cap DigitKeys : DigitIndex(k) <= i

\* C24: in a call of HandleInteractiveShortcuts in which a digit key fires,
\* the selection is made first: the highest-numbered digit key that fired
\* determines the selected light, the T toggle, the arrow-key nudge and the
\* intensity step of that call act on the newly selected light, and the
\* light selected before, when it is another one, keeps its position, its
\* enabled flag and its intensity.
C24_SelectionFirst ==
    fired \cap DigitKeys # {} =>
        LET new == m_selectedPointLight
            old == prev.sel
        IN  /\ new = LastSelected(fired)
            /\ new # old =>
                   /\ m_pointLightPos[old] = prev.pos[old]
                   /\ m_pointLightOn[old] = prev.on[old]
                   /\ m_pointIntensity[old] = prev.inten[old]
            /\ m_pointLightOn[new] = (IF "T" \in fired THEN ~prev.on[new] ELSE prev.on[new])
            /\ m_pointLightPos[new].x =
                   (IF "LEFT" \in handled
                    THEN FSub(prev.pos[new].x, Speed(m_moveSpeedScale, handled))
                    ELSE prev.pos[new].x)
            /\ m_pointIntensity[new] =
                   (IF "KP_ADD" \in handled THEN IntensityUp(prev.inten[new])
                    ELSE prev.inten[new])

\* keys 1 and 2 fired together with T while light 0 was selected and light 1
\* was off: light 1 is selected and switched on, light 0 is as it was
C24_Witness ==
    /\ fired = {"1", "2", "T"}
    /\ prev.sel = 0
    /\ m_selectedPointLight = 1
    /\ ~prev.on[1]
    /\ m_pointLightOn[1]
    /\ m_pointLightOn[0] = prev.on[0]

\* mouse events at whole and at fractional coordinates
InitMouse ==
    /\ InitView
    /\ InitMembers(F1, 0, F1, F0)
    /\ InitScene(TRUE)
    /\ InitObservers("Z", "mouse")

NextMouse ==
    \/ \E x, y \in MouseCoords : MousePositionCallback(x, y)
    \/ \E d \in ScrollDeltas : ScrollCallback(d)

SpecMouse == InitMouse /\ [][NextMouse]_vars

\* C25: the first mouse event hands the camera the look delta (0, 0)
\* whatever its coordinates; every later event hands it
\* xOffset = x - previous x and yOffset = previous y - y, previous being the
\* coordinates of the event before; the x offsets so far add up to the last
\* x minus the first x.
C25_MouseDeltas ==
    /\ mouseLog.n = 1 => look = <<F0, F0>>
    /\ (mouseLog.n >= 2 /\ mouseLog.n < MouseCap) =>
           /\ Units(look[1]) = Units(mouseLog.x) - Units(mouseLog.px)
           /\ Units(look[2]) = Units(mouseLog.py) - Units(mouseLog.y)
    /\ (mouseLog.n >= 1 /\ mouseLog.n < MouseCap) =>
           mouseLog.sum = Units(mouseLog.x) - Units(mouseLog.fx)

\* the texture table filled by single CreateGLTexture calls and by
\* LoadSceneTextures, which may be called again
SlotTags == {"wood", "brick"}

AllSceneTextures == {SceneTextureTags[i] : i \in 1..Len(SceneTextureTags)}

InitSlots ==
    /\ InitView
    /\ InitMembers(F1, 0, F1, F0)
    /\ InitScene(TRUE)
    /\ InitObservers("Z", "texture")

NextSlots ==
    \/ \E tag \in SlotTags : \E image \in {"rgb", "rgba", "channels", "unreadable"} :
           /\ m_loadedTextures < MaxTextures
           /\ Cardinality(glTextures) < MaxGen
           /\ CreateGLTexture(tag, image)
    \/ \E loadable \in {{}, AllSceneTextures} : \E outcome \in {"crash", "store"} :
           LoadSceneTextures(loadable, outcome)

SpecSlots == InitSlots /\ [][NextSlots]_vars

\* what the claim says of FindTextureSlot: the lowest slot holding the tag,
\* -1 when no slot holds it
FindsLowest(tag) ==
    LET r == FindTextureSlot(tag)
    IN  IF \A i \in 1..m_loadedTextures : m_textureIDs[i].tag # tag THEN r = -1
        ELSE /\ r \in 0..(m_loadedTextures - 1)
             /\ m_textureIDs[r + 1].tag = tag
             /\ \A i \in 1..r : m_textureIDs[i].tag # tag

\* what the claim says of a single CreateGLTexture call: a failed call leaves
\* the table as it was, a successful one appends its tag in the slot equal to
\* the count before
CreateRegisters ==
    (texLog.op = "create" /\ pc = "loop") =>
        IF texLog.ok
        THEN /\ m_loadedTextures = Len(texLog.before) + 1
             /\ SubSeq(m_textureIDs, 1, Len(texLog.before)) = texLog.before
             /\ m_textureIDs[m_loadedTextures].tag = texLog.tag
        ELSE m_textureIDs = texLog.before

\* C26: after any sequence of CreateGLTexture calls, repeated
\* LoadSceneTextures included, at most TextureSlots (16) textures are
\* registered; a failed call leaves the table and its count unchanged; a
\* successful call registers its tag in the slot equal to the count before;
\* FindTextureSlot returns the lowest slot holding a tag and -1 for a tag
\* never registered.
C26_TableWithinSlots ==
    /\ m_loadedTextures <= TextureSlots
    /\ CreateRegisters
    /\ \A tag \in SlotTags \cup AllSceneTextures : FindsLowest(tag)

\* the part of C26 that holds: what single calls do to the table, and the
\* slot FindTextureSlot returns
C26_RegistersAndFinds ==
    /\ CreateRegisters
    /\ \A tag \in SlotTags \cup AllSceneTextures : FindsLowest(tag)

====
